---- MODULE Spec2Model ----
(***************************************************************************)
(* Rooting and tracing protocol of examples/tracing.cpp: SafeBox, the      *)
(* GCPolicy for std::shared_ptr, global and member PersistentRooted,       *)
(* CustomObject with its trace / finalize class hooks, and the example     *)
(* functions run by main.                                                  *)
(*                                                                         *)
(* Two specifications share the state and the collector model:            *)
(*   Spec      - one run of main(): RunExample(TracingExample).            *)
(*   SpecEmbed - an embedder using the same types with non-empty boxes.    *)
(*                                                                         *)
(* A GC-thing pointer is an address <<id, generation>>.  A moving pass     *)
(* raises the generation of every object it keeps, so a pointer the pass   *)
(* did not update no longer resolves to the object.                        *)
(***************************************************************************)
EXTENDS Integers, Sequences, FiniteSets, TLC

\* ---------------------------------------------------------------- bounds
MaxObj == 3      \* GC things allocated in one run
MaxBox == 3      \* SafeBox storage locations (box 1 is the static eternalBox)
MaxLen == 1      \* elements of SafeBox::container
MaxStack == 2    \* depth of the stack root list
MaxMoves == 2    \* relocating passes
MaxGC == 2       \* collections triggered inside JSAPI calls of main()
MaxOps == 5      \* operations of one embedder run
MaxVec == 3      \* elements of a container handed to a direct trace call

VARIABLES
    engine,        \* "pre" | "running" | "shutdown": JS_Init / JS_ShutDown
    objState,      \* GC thing: "unalloc" | "live" | "collected"
    objCls,        \* its JSClass: "none" | "plain" | "global" | "custom"
    objGen,        \* how often the collector moved it
    objSlots,      \* reserved slots of a CustomObject: [owned, unowned]
    finalized,     \* how often the class finalize hook ran on it
    boxState,      \* SafeBox storage: "free" | "alloc"
    boxStashed,    \* SafeBox::stashed
    boxContainer,  \* SafeBox::container
    stack,         \* the context's list of JS::Rooted, innermost last
    persist,       \* the PersistentRooted instances
    handles,       \* JS::Handle in flight: indices into stack
    pc,            \* position of main()
    box,           \* CustomObjectExample: SafeBox* box
    rawObj,        \* CustomObjectExample: JSObject* obj (a raw pointer)
    result,        \* "none" | "true" | "false": what the task returned
    exitCode,      \* main's return value, -1 while running
    gcCount,       \* collection passes so far
    moves,         \* relocating collections so far
    ops,           \* embedder operations so far
    marking,       \* the incremental marking pass in progress, if any
    call,          \* the last direct call of a trace method or policy function
    faults         \* undefined behaviour and assertion failures observed

vars == <<engine, objState, objCls, objGen, objSlots, finalized, boxState,
          boxStashed, boxContainer, stack, persist, handles, pc, box, rawObj,
          result, exitCode, gcCount, moves, ops, marking, call, faults>>

\* ------------------------------------------------------------ the values
ObjIds == 1..MaxObj
BoxIds == 1..MaxBox
NoBox == 0
eternalBox == 1
Undef == <<0, 0>>

globalPtrSafe == 1
globalMaybeSafe == 2
memberSafe == 3
memberObjPtr == 4
PNames == {globalPtrSafe, globalMaybeSafe, memberSafe, memberObjPtr}

EmptySlots == [owned |-> NoBox, unowned |-> NoBox]
EmptyRoot == [reg |-> FALSE, kind |-> "none", box |-> NoBox, val |-> Undef]

\* No direct call made.  op: the function called; box: its target; ans:
\* what the wrapped type's policy answers when asked; res: the result;
\* asked: whether the wrapped policy was consulted; edges: the edges traced.
NoCall == [op |-> "none", box |-> NoBox, ans |-> FALSE, res |-> FALSE,
           asked |-> FALSE, edges |-> {}]

\* No marking pass in progress.  objs: the objects marked; edges: the
\* slots visited; late: the slots assigned to after the pass visited them;
\* moving: whether the pass relocates; moved: the objects relocated so far;
\* again: the slots visited a second time.
NoMarking == [active |-> FALSE, objs |-> {}, edges |-> {}, late |-> {},
              moving |-> FALSE, moved |-> {}, again |-> {}]

\* The object a pointer refers to now, 0 when it refers to none.
Resolve(a) ==
    IF a[1] \in ObjIds /\ objState[a[1]] = "live" /\ objGen[a[1]] = a[2]
    THEN a[1] ELSE 0

AddrOf(o) == <<o, objGen[o]>>

IsAlloc(b) == b \in BoxIds /\ boxState[b] = "alloc"

\* ------------------------------------------------------------- the edges
\* An edge handed to JS::TraceEdge: the location of the slot, and whether
\* the tracer got the slot itself (ref) or a copy of its content.
Edge(k, b, i, r) == [k |-> k, b |-> b, i |-> i, ref |-> r]
FaultEdge == Edge("fault", 0, 0, FALSE)

ValueAt(e) ==
    CASE e.k = "stashed" -> boxStashed[e.b]
      [] e.k = "elem" -> boxContainer[e.b][e.i]
      [] e.k = "stack" -> stack[e.b].val
      [] e.k = "persist" -> persist[e.b].val
      [] OTHER -> Undef

\* for (auto& elem : container) JS::TraceEdge(trc, &elem, ...)
RECURSIVE TraceContainer(_, _)
TraceContainer(b, i) ==
    IF i > Len(boxContainer[b]) THEN {}
    ELSE {Edge("elem", b, i, TRUE)} \cup TraceContainer(b, i + 1)

\* The same loop over copies: for (auto elem : container).
RECURSIVE TraceContainerByCopy(_, _)
TraceContainerByCopy(b, i) ==
    IF i > Len(boxContainer[b]) THEN {}
    ELSE {Edge("elem", b, i, FALSE)} \cup TraceContainerByCopy(b, i + 1)

\* SafeBox::trace without the container loop.
SafeBoxTraceNoContainer(b) ==
    IF ~IsAlloc(b) THEN {FaultEdge} ELSE {Edge("stashed", b, 0, TRUE)}

\* SafeBox::trace without the stashed field.
SafeBoxTraceNoStashed(b) ==
    IF ~IsAlloc(b) THEN {FaultEdge} ELSE TraceContainer(b, 1)

\* SafeBox::trace handing the tracer copies of the container's elements.
SafeBoxTraceByCopy(b) ==
    IF ~IsAlloc(b) THEN {FaultEdge}
    ELSE {Edge("stashed", b, 0, TRUE)} \cup TraceContainerByCopy(b, 1)

\* SafeBox::trace with the loop starting at the second element.
SafeBoxTraceSkipFirst(b) ==
    IF ~IsAlloc(b) THEN {FaultEdge}
    ELSE {Edge("stashed", b, 0, TRUE)} \cup TraceContainer(b, 2)

\* SafeBox::trace.  Called on a null or deleted box it is undefined
\* behaviour, reported as the fault edge.
SafeBoxTrace(b) ==
    IF ~IsAlloc(b) THEN {FaultEdge}
    ELSE {Edge("stashed", b, 0, TRUE)} \cup TraceContainer(b, 1)

\* GCPolicy<std::shared_ptr<T>>::trace forwarding without the null test.
SharedPtrTraceNoTest(b) == SafeBoxTrace(b)

\* JS::GCPolicy<std::shared_ptr<T>>::trace
SharedPtrTrace(b) == IF b # NoBox THEN SafeBoxTrace(b) ELSE {}

\* needsSweep and isValid of the policy.  ans is what GCPolicy<T> answers
\* for the target; asked tells whether it was called.
\* isValid with the answer for an empty pointer inverted.
SharedPtrIsValidEmptyInvalid(b, ans) ==
    IF b # NoBox THEN [res |-> ans, asked |-> TRUE]
    ELSE [res |-> FALSE, asked |-> FALSE]

\* needsSweep answering by itself for every pointer.
SharedPtrNeedsSweepNoForward(b, ans) == [res |-> FALSE, asked |-> FALSE]

\* JS::GCPolicy<std::shared_ptr<T>>::needsSweep
SharedPtrNeedsSweep(b, ans) ==
    IF b # NoBox THEN [res |-> ans, asked |-> TRUE]
    ELSE [res |-> FALSE, asked |-> FALSE]

\* JS::GCPolicy<std::shared_ptr<T>>::isValid
SharedPtrIsValid(b, ans) ==
    IF b # NoBox THEN [res |-> ans, asked |-> TRUE]
    ELSE [res |-> TRUE, asked |-> FALSE]

\* JS::GCPolicy<js::UniquePtr<T>>::trace
UniquePtrTrace(b) == IF b # NoBox THEN SafeBoxTrace(b) ELSE {}

\* CustomObject::ownedBox / unownedBox
ownedBox(o) == objSlots[o].owned
unownedBox(o) == objSlots[o].unowned

\* CustomObject::trace tracing the owned box only.
CustomObjectTraceOwnedOnly(o) ==
    IF ownedBox(o) # NoBox THEN SafeBoxTrace(ownedBox(o)) ELSE {}

\* CustomObject::trace without the tests for a null box.
CustomObjectTraceUnchecked(o) ==
    SafeBoxTrace(ownedBox(o)) \cup SafeBoxTrace(unownedBox(o))

\* CustomObject::trace
CustomObjectTrace(o) ==
    (IF ownedBox(o) # NoBox THEN SafeBoxTrace(ownedBox(o)) ELSE {})
    \cup (IF unownedBox(o) # NoBox THEN SafeBoxTrace(unownedBox(o)) ELSE {})

\* CustomObject::finalize deleting both boxes.
FinalizeDeletesBoth(o) == {ownedBox(o), unownedBox(o)} \ {NoBox}

\* CustomObject::finalize: the boxes it deletes (delete nullptr is a no-op).
CustomObjectFinalize(o) == {ownedBox(o)} \ {NoBox}

\* classOps: the hooks the collector calls for an object of class clasp.
ClassTrace(o) == IF objCls[o] = "custom" THEN CustomObjectTrace(o) ELSE {}
ClassFinalize(o) == IF objCls[o] = "custom" THEN CustomObjectFinalize(o) ELSE {}

\* Roots traced for the boxes they hold only: a Rooted<JSObject*> hands the
\* tracer nothing.
RootTraceBoxesOnly(k, where, r) ==
    CASE r.kind = "SafeBox" -> SafeBoxTrace(r.box)
      [] r.kind = "UniquePtr" -> UniquePtrTrace(r.box)
      [] r.kind = "SharedPtr" -> SharedPtrTrace(r.box)
      [] OTHER -> {}

\* What one root hands to the tracer.
RootTrace(k, where, r) ==
    CASE r.kind = "SafeBox" -> SafeBoxTrace(r.box)
      [] r.kind = "UniquePtr" -> UniquePtrTrace(r.box)
      [] r.kind = "SharedPtr" -> SharedPtrTrace(r.box)
      [] r.kind = "Object" -> {Edge(k, where, 0, TRUE)}
      [] OTHER -> {}

StackEdges == UNION {RootTrace("stack", i, stack[i]) : i \in 1..Len(stack)}
PersistEdges ==
    UNION {IF persist[p].reg THEN RootTrace("persist", p, persist[p]) ELSE {}
           : p \in PNames}
RootEdges == StackEdges \cup PersistEdges

\* The marking pass: objects found live and every edge visited.
RECURSIVE Mark(_, _)
Mark(objs, edges) ==
    LET found == {Resolve(ValueAt(e)) : e \in edges \ {FaultEdge}} \ {0}
        newObjs == objs \cup found
        newEdges == edges \cup UNION {ClassTrace(o) : o \in newObjs}
    IN IF newObjs = objs /\ newEdges = edges
       THEN [objs |-> objs, edges |-> edges]
       ELSE Mark(newObjs, newEdges)

Marked == Mark({}, RootEdges)

\* ---------------------------------------------------------- the collector
heapVars == <<objState, objCls, objGen, objSlots, finalized>>
boxVars == <<boxState, boxStashed, boxContainer>>
progVars == <<pc, box, rawObj, result, exitCode>>
gcVars == <<gcCount, moves, marking, call>>

\* One collection pass: mark from the roots, run the finalize hook of every
\* object not marked (.finalize, JSCLASS_FOREGROUND_FINALIZE), and, when the
\* pass relocates, move every marked object and update every slot whose
\* address the tracer was given.  Raw pointers and slots nobody traced keep
\* the old address.
CollectWith(m, dead, freed, moving) ==
    LET deleters(b) == {o \in dead : b \in ClassFinalize(o)}
        badFree == \E b \in freed :
                      \/ ~IsAlloc(b)
                      \/ b = eternalBox
                      \/ Cardinality(deleters(b)) > 1
        dangling == \E e \in m.edges \ {FaultEdge} :
                       ValueAt(e) # Undef /\ Resolve(ValueAt(e)) = 0
        New(a) == IF moving /\ Resolve(a) # 0 THEN <<a[1], a[2] + 1>> ELSE a
        Upd(e, a) == IF e \in m.edges THEN New(a) ELSE a
    IN /\ objState' = [o \in ObjIds |->
                          IF o \in dead THEN "collected" ELSE objState[o]]
       /\ finalized' = [o \in ObjIds |->
                          IF o \in dead /\ objCls[o] = "custom"
                          THEN finalized[o] + 1 ELSE finalized[o]]
       /\ objGen' = [o \in ObjIds |->
                          IF moving /\ o \in m.objs
                          THEN objGen[o] + 1 ELSE objGen[o]]
       /\ boxState' = [b \in BoxIds |->
                          IF b \in freed THEN "free" ELSE boxState[b]]
       /\ boxStashed' = [b \in BoxIds |->
                          IF b \in freed THEN Undef
                          ELSE Upd(Edge("stashed", b, 0, TRUE), boxStashed[b])]
       /\ boxContainer' = [b \in BoxIds |->
                          IF b \in freed THEN <<>>
                          ELSE [i \in 1..Len(boxContainer[b]) |->
                                  Upd(Edge("elem", b, i, TRUE),
                                      boxContainer[b][i])]]
       /\ stack' = [i \in 1..Len(stack) |->
                          [stack[i] EXCEPT
                             !.val = Upd(Edge("stack", i, 0, TRUE), @)]]
       /\ persist' = [p \in PNames |->
                          [persist[p] EXCEPT
                             !.val = Upd(Edge("persist", p, 0, TRUE), @)]]
       /\ faults' = faults
                    \cup (IF FaultEdge \in m.edges THEN {"badderef"} ELSE {})
                    \cup (IF badFree THEN {"badfree"} ELSE {})
                    \cup (IF dangling THEN {"dangling"} ELSE {})
       /\ gcCount' = gcCount + 1
       /\ moves' = IF moving THEN moves + 1 ELSE moves
       /\ objSlots' = [o \in ObjIds |->
                          IF o \in dead THEN EmptySlots ELSE objSlots[o]]
       /\ UNCHANGED objCls

\* The objects a pass with marking result m finalizes, and the boxes their
\* finalize hooks delete.
DeadOf(m) == {o \in ObjIds : objState[o] = "live"} \ m.objs
FreedBy(dead) == UNION {ClassFinalize(o) : o \in dead}

Collect(moving) ==
    \E m \in {Marked} :
       \E dead \in {DeadOf(m)} :
          \E freed \in {FreedBy(dead)} :
             /\ CollectWith(m, dead, freed, moving)
             /\ UNCHANGED <<marking, call>>

CanCollect(moving) == moving => moves < MaxMoves

\* ------------------------------------------------------------ allocation
HasFreshObj == \E o \in ObjIds : objState[o] = "unalloc"
FreshObj == CHOOSE o \in ObjIds :
               /\ objState[o] = "unalloc"
               /\ \A q \in ObjIds : objState[q] = "unalloc" => o <= q

FreeBoxes == {b \in BoxIds \ {eternalBox} : boxState[b] = "free"}
FreshBox == CHOOSE b \in FreeBoxes : \A q \in FreeBoxes : b <= q

\* new SafeBox(), js::MakeUnique<SafeBox>(), std::make_shared<SafeBox>():
\* stashed is undefined and the container is empty.
NewSafeBox(b) ==
    /\ boxState' = [boxState EXCEPT ![b] = "alloc"]
    /\ boxStashed' = [boxStashed EXCEPT ![b] = Undef]
    /\ boxContainer' = [boxContainer EXCEPT ![b] = <<>>]

\* ~SafeBox(): the storage is released and its Heap fields destroyed.
DeleteSafeBox(b) ==
    /\ boxState' = [boxState EXCEPT ![b] = "free"]
    /\ boxStashed' = [boxStashed EXCEPT ![b] = Undef]
    /\ boxContainer' = [boxContainer EXCEPT ![b] = <<>>]

\* JS_NewObject(cx, clasp) succeeding.
NewObject(o, cls) ==
    /\ objState' = [objState EXCEPT ![o] = "live"]
    /\ objCls' = [objCls EXCEPT ![o] = cls]
    /\ objSlots' = [objSlots EXCEPT ![o] = EmptySlots]
    /\ UNCHANGED <<objGen, finalized>>

\* -------------------------------------------------------- the stack roots
Rooted(kind, b, v) == [kind |-> kind, box |-> b, val |-> v]

\* JS::Rooted<T> r(cx, initial): registered as the new head.
PushRooted(r) == stack' = Append(stack, r)

\* ~Rooted() of the head.
PopRooted == stack' = SubSeq(stack, 1, Len(stack) - 1)

\* ~Rooted() of the node at position i.  The head is unlinked; for any
\* other node the destructor's check fails and the process aborts with the
\* list as it was.
DestructRootedSilently(i) ==
    /\ stack' = SubSeq(stack, 1, i - 1)
    /\ UNCHANGED faults

DestructRooted(i) ==
    IF i = Len(stack)
    THEN PopRooted /\ UNCHANGED faults
    ELSE stack' = stack /\ faults' = faults \cup {"lifo"}

Top == stack[Len(stack)]

\* ----------------------------------------------------------------- Init
\* The global PersistentRooted are constructed before JS_Init: empty, not
\* registered, no Heap field created.
GlobalsWithHeapFields ==
    [p \in PNames |->
        IF p = globalMaybeSafe
        THEN [reg |-> TRUE, kind |-> "SafeBox", box |-> eternalBox,
              val |-> Undef]
        ELSE EmptyRoot]

GlobalsAtStart == [p \in PNames |-> EmptyRoot]

Init ==
    /\ engine = "pre"
    /\ objState = [o \in ObjIds |-> "unalloc"]
    /\ objCls = [o \in ObjIds |-> "none"]
    /\ objGen = [o \in ObjIds |-> 0]
    /\ objSlots = [o \in ObjIds |-> EmptySlots]
    /\ finalized = [o \in ObjIds |-> 0]
    /\ boxState = [b \in BoxIds |-> IF b = eternalBox THEN "alloc" ELSE "free"]
    /\ boxStashed = [b \in BoxIds |-> Undef]
    /\ boxContainer = [b \in BoxIds |-> <<>>]
    /\ stack = <<>>
    /\ persist = GlobalsAtStart
    /\ handles = {}
    /\ pc = "main"
    /\ box = NoBox
    /\ rawObj = Undef
    /\ result = "none"
    /\ exitCode = -1
    /\ gcCount = 0
    /\ moves = 0
    /\ ops = 0
    /\ marking = NoMarking
    /\ call = NoCall
    /\ faults = {}

\* ------------------------------------------------- main: RunExample(task)
\* boilerplate::RunExample: JS_Init and a context, then the task.
RunExampleInit ==
    /\ pc = "main"
    /\ engine' = "running"
    /\ pc' = "cte1"
    /\ UNCHANGED <<heapVars, boxVars, stack, persist, handles, box, rawObj,
                   result, exitCode, ops, gcVars, faults>>

\* JS::Rooted<SafeBox> stackSafe(cx);
CustomTypeStackSafe ==
    /\ pc = "cte1"
    /\ NewSafeBox(FreshBox)
    /\ PushRooted(Rooted("SafeBox", FreshBox, Undef))
    /\ pc' = "cte2"
    /\ UNCHANGED <<engine, heapVars, persist, handles, box, rawObj, result,
                   exitCode, ops, gcVars, faults>>

\* JS::Rooted<js::UniquePtr<SafeBox>> heapSafe(cx, js::MakeUnique<SafeBox>());
CustomTypeHeapSafe ==
    /\ pc = "cte2"
    /\ NewSafeBox(FreshBox)
    /\ PushRooted(Rooted("UniquePtr", FreshBox, Undef))
    /\ pc' = "cte3"
    /\ UNCHANGED <<engine, heapVars, persist, handles, box, rawObj, result,
                   exitCode, ops, gcVars, faults>>

\* return true: ~heapSafe, which deletes its SafeBox.
CustomTypePopHeapSafe ==
    /\ pc = "cte3"
    /\ DestructRooted(Len(stack))
    /\ DeleteSafeBox(Top.box)
    /\ pc' = "cte4"
    /\ UNCHANGED <<engine, heapVars, persist, handles, box, rawObj, result,
                   exitCode, ops, gcVars>>

\* ... then ~stackSafe.
CustomTypePopStackSafe ==
    /\ pc = "cte4"
    /\ DestructRooted(Len(stack))
    /\ DeleteSafeBox(Top.box)
    /\ pc' = "ete1"
    /\ UNCHANGED <<engine, heapVars, persist, handles, box, rawObj, result,
                   exitCode, ops, gcVars>>

\* JS::Rooted<std::shared_ptr<SafeBox>> sharedSafe(cx, std::make_shared<SafeBox>());
ExistingTypeSharedSafe ==
    /\ pc = "ete1"
    /\ NewSafeBox(FreshBox)
    /\ PushRooted(Rooted("SharedPtr", FreshBox, Undef))
    /\ pc' = "ete2"
    /\ UNCHANGED <<engine, heapVars, persist, handles, box, rawObj, result,
                   exitCode, ops, gcVars, faults>>

\* return true: ~sharedSafe drops the last reference to the SafeBox.
ExistingTypePop ==
    /\ pc = "ete2"
    /\ DestructRooted(Len(stack))
    /\ DeleteSafeBox(Top.box)
    /\ pc' = "gre1"
    /\ UNCHANGED <<engine, heapVars, persist, handles, box, rawObj, result,
                   exitCode, ops, gcVars>>

\* PersistentRooted registering with the root list, and leaving it.
Register(p, kind, b) ==
    persist' = [persist EXCEPT
                  ![p] = [reg |-> TRUE, kind |-> kind, box |-> b, val |-> Undef]]
Unregister(p) == persist' = [persist EXCEPT ![p] = EmptyRoot]

\* globalPtrSafe.init(cx, js::MakeUnique<SafeBox>());
GlobalRootInit ==
    /\ pc = "gre1"
    /\ NewSafeBox(FreshBox)
    /\ Register(globalPtrSafe, "UniquePtr", FreshBox)
    /\ pc' = "gre2"
    /\ UNCHANGED <<engine, heapVars, stack, handles, box, rawObj, result,
                   exitCode, ops, gcVars, faults>>

\* globalMaybeSafe.emplace(cx);
GlobalRootEmplace ==
    /\ pc = "gre2"
    /\ NewSafeBox(FreshBox)
    /\ Register(globalMaybeSafe, "SafeBox", FreshBox)
    /\ pc' = "gre3"
    /\ UNCHANGED <<engine, heapVars, stack, handles, box, rawObj, result,
                   exitCode, ops, gcVars, faults>>

\* A reset() left out.
ResetForgotten ==
    /\ pc = "gre4"
    /\ pc' = "ere1"
    /\ UNCHANGED <<engine, heapVars, boxVars, stack, persist, handles, box,
                   rawObj, result, exitCode, ops, gcVars, faults>>

\* globalMaybeSafe.reset();
GlobalRootResetMaybe ==
    /\ pc = "gre3"
    /\ DeleteSafeBox(persist[globalMaybeSafe].box)
    /\ Unregister(globalMaybeSafe)
    /\ pc' = "gre4"
    /\ UNCHANGED <<engine, heapVars, stack, handles, box, rawObj, result,
                   exitCode, ops, gcVars, faults>>

\* globalPtrSafe.reset();
GlobalRootResetPtr ==
    /\ pc = "gre4"
    /\ DeleteSafeBox(persist[globalPtrSafe].box)
    /\ Unregister(globalPtrSafe)
    /\ pc' = "ere1"
    /\ UNCHANGED <<engine, heapVars, stack, handles, box, rawObj, result,
                   exitCode, ops, gcVars, faults>>

\* js::UniquePtr<EmbeddingContext> ec{new EmbeddingContext(cx)};
EmbeddingRootNew ==
    /\ pc = "ere1"
    /\ NewSafeBox(FreshBox)
    /\ persist' = [persist EXCEPT
          ![memberSafe] = [reg |-> TRUE, kind |-> "SafeBox",
                           box |-> FreshBox, val |-> Undef],
          ![memberObjPtr] = [reg |-> TRUE, kind |-> "Object",
                             box |-> NoBox, val |-> Undef]]
    /\ pc' = "ere2"
    /\ UNCHANGED <<engine, heapVars, stack, handles, box, rawObj, result,
                   exitCode, ops, gcVars, faults>>

\* An EmbeddingContext whose destruction leaves memberObjPtr on the root list.
EmbeddingRootDeleteKeepsObjPtr ==
    /\ pc = "ere2"
    /\ DeleteSafeBox(persist[memberSafe].box)
    /\ persist' = [persist EXCEPT ![memberSafe] = EmptyRoot]
    /\ pc' = "coe1"
    /\ UNCHANGED <<engine, heapVars, stack, handles, box, rawObj, result,
                   exitCode, ops, gcVars, faults>>

\* return true: ~ec destroys memberObjPtr, then memberSafe.
EmbeddingRootDelete ==
    /\ pc = "ere2"
    /\ DeleteSafeBox(persist[memberSafe].box)
    /\ persist' = [persist EXCEPT ![memberSafe] = EmptyRoot,
                                  ![memberObjPtr] = EmptyRoot]
    /\ pc' = "coe1"
    /\ UNCHANGED <<engine, heapVars, stack, handles, box, rawObj, result,
                   exitCode, ops, gcVars, faults>>

\* ------------------------------------------------------ CustomObjectExample
\* JS::RootedObject global(cx, boilerplate::CreateGlobal(cx)); CreateGlobal
\* gives null when the allocation fails.
CustomObjectCreateGlobal ==
    /\ pc = "coe1"
    /\ \/ /\ PushRooted(Rooted("Object", NoBox, Undef))
          /\ UNCHANGED heapVars
       \/ /\ HasFreshObj
          /\ NewObject(FreshObj, "global")
          /\ PushRooted(Rooted("Object", NoBox, <<FreshObj, 0>>))
    /\ pc' = "coe2"
    /\ UNCHANGED <<engine, boxVars, persist, handles, box, rawObj, result,
                   exitCode, ops, gcVars, faults>>

\* if (!global) return false;
CustomObjectCheckGlobal ==
    /\ pc = "coe2"
    /\ IF Top.val = Undef
       THEN /\ DestructRooted(Len(stack))
            /\ result' = "false"
            /\ pc' = "destroy"
       ELSE /\ pc' = "coe3"
            /\ UNCHANGED <<stack, faults, result>>
    /\ UNCHANGED <<engine, heapVars, boxVars, persist, handles, box, rawObj,
                   exitCode, ops, gcVars>>

\* JSAutoRealm ar(cx, global); SafeBox* box = new SafeBox();
\* static SafeBox eternalBox{};
CustomObjectNewBox ==
    /\ pc = "coe3"
    /\ NewSafeBox(FreshBox)
    /\ box' = FreshBox
    /\ pc' = "create1"
    /\ UNCHANGED <<engine, heapVars, stack, persist, handles, rawObj, result,
                   exitCode, ops, gcVars, faults>>

\* CustomObject::create keeping the new object in a plain JSObject* local,
\* which no tracer visits.
CreateNewObjectUnrooted ==
    /\ pc = "create1"
    /\ \/ /\ PushRooted(Rooted("Raw", NoBox, Undef))
          /\ UNCHANGED heapVars
       \/ /\ HasFreshObj
          /\ NewObject(FreshObj, "custom")
          /\ PushRooted(Rooted("Raw", NoBox, <<FreshObj, 0>>))
    /\ pc' = "create2"
    /\ UNCHANGED <<engine, boxVars, persist, handles, box, rawObj, result,
                   exitCode, ops, gcVars, faults>>

\* CustomObject::create: JS::Rooted<JSObject*> obj(cx, JS_NewObject(cx, &clasp));
CreateNewObject ==
    /\ pc = "create1"
    /\ \/ /\ PushRooted(Rooted("Object", NoBox, Undef))
          /\ UNCHANGED heapVars
       \/ /\ HasFreshObj
          /\ NewObject(FreshObj, "custom")
          /\ PushRooted(Rooted("Object", NoBox, <<FreshObj, 0>>))
    /\ pc' = "create2"
    /\ UNCHANGED <<engine, boxVars, persist, handles, box, rawObj, result,
                   exitCode, ops, gcVars, faults>>

\* The pointer create works on: the content of its Rooted obj.
CreateObj == Top.val

\* CustomObject::create without the null check.
CreateCheckMissing ==
    /\ pc = "create2"
    /\ pc' = "create3"
    /\ UNCHANGED <<engine, heapVars, boxVars, stack, persist, handles, box,
                   rawObj, result, exitCode, ops, gcVars, faults>>

\* if (!obj) return nullptr;
CreateCheck ==
    /\ pc = "create2"
    /\ IF CreateObj = Undef
       THEN /\ DestructRooted(Len(stack))
            /\ rawObj' = Undef
            /\ pc' = "coe4"
       ELSE /\ pc' = "create3"
            /\ UNCHANGED <<stack, faults, rawObj>>
    /\ UNCHANGED <<engine, heapVars, boxVars, persist, handles, box, result,
                   exitCode, ops, gcVars>>

\* A call JS_SetReservedSlot(obj, ...) begins: obj converts to a Handle.
CreateCallSetSlot ==
    /\ pc \in {"create3", "create4"}
    /\ handles' = {Len(stack)}
    /\ pc' = IF pc = "create3" THEN "create3in" ELSE "create4in"
    /\ UNCHANGED <<engine, heapVars, boxVars, stack, persist, box, rawObj,
                   result, exitCode, ops, gcVars, faults>>

\* The slot write through the handle.  A handle whose pointer resolves to no
\* object writes through a dangling pointer.
SetReservedSlot(a, slot, b) ==
    IF Resolve(a) = 0
    THEN /\ faults' = faults \cup {"dangling"}
         /\ UNCHANGED objSlots
    ELSE /\ objSlots' = [objSlots EXCEPT ![Resolve(a)][slot] = b]
         /\ UNCHANGED faults

\* JS_SetReservedSlot(obj, OwnedBoxSlot, JS::PrivateValue(box1));
CreateSetOwned ==
    /\ pc = "create3in"
    /\ SetReservedSlot(CreateObj, "owned", box)
    /\ handles' = {}
    /\ pc' = "create4"
    /\ UNCHANGED <<engine, objState, objCls, objGen, finalized, boxVars, stack,
                   persist, box, rawObj, result, exitCode, ops, gcVars>>

\* JS_SetReservedSlot(obj, UnownedBoxSlot, JS::PrivateValue(box2));
CreateSetUnowned ==
    /\ pc = "create4in"
    /\ SetReservedSlot(CreateObj, "unowned", eternalBox)
    /\ handles' = {}
    /\ pc' = "create5"
    /\ UNCHANGED <<engine, objState, objCls, objGen, finalized, boxVars, stack,
                   persist, box, rawObj, result, exitCode, ops, gcVars>>

\* return obj; the caller's JSObject* obj receives the raw pointer.
CreateReturn ==
    /\ pc = "create5"
    /\ rawObj' = CreateObj
    /\ DestructRooted(Len(stack))
    /\ pc' = "coe4"
    /\ UNCHANGED <<engine, heapVars, boxVars, persist, handles, box, result,
                   exitCode, ops, gcVars>>

\* if (!obj) return false; with global left on the root list.
CustomObjectCheckObjKeepsGlobal ==
    /\ pc = "coe4"
    /\ IF rawObj = Undef
       THEN /\ result' = "false"
            /\ pc' = "destroy"
            /\ UNCHANGED <<stack, faults>>
       ELSE /\ pc' = "coe5"
            /\ UNCHANGED <<stack, faults, result>>
    /\ UNCHANGED <<engine, heapVars, boxVars, persist, handles, box, rawObj,
                   exitCode, ops, gcVars>>

\* if (!obj) return false;
CustomObjectCheckObj ==
    /\ pc = "coe4"
    /\ IF rawObj = Undef
       THEN /\ DestructRooted(Len(stack))
            /\ result' = "false"
            /\ pc' = "destroy"
       ELSE /\ pc' = "coe5"
            /\ UNCHANGED <<stack, faults, result>>
    /\ UNCHANGED <<engine, heapVars, boxVars, persist, handles, box, rawObj,
                   exitCode, ops, gcVars>>

\* JS_GC(cx);
CustomObjectJSGC ==
    /\ pc = "coe5"
    /\ \E moving \in BOOLEAN :
          /\ CanCollect(moving)
          /\ Collect(moving)
    /\ pc' = "coe6"
    /\ UNCHANGED <<engine, handles, box, rawObj, result, exitCode, ops>>

\* return true;
CustomObjectReturn ==
    /\ pc = "coe6"
    /\ DestructRooted(Len(stack))
    /\ result' = "true"
    /\ pc' = "destroy"
    /\ UNCHANGED <<engine, heapVars, boxVars, persist, handles, box, rawObj,
                   exitCode, ops, gcVars>>

\* A collection inside a JSAPI call: "During any JSAPI call, SpiderMonkey
\* can GC".
GCPoints == {"coe1", "create1", "create3in", "create4in"}

MaybeGC ==
    /\ pc \in GCPoints
    /\ gcCount < MaxGC
    /\ \E moving \in BOOLEAN :
          /\ CanCollect(moving)
          /\ Collect(moving)
    /\ UNCHANGED <<engine, handles, progVars, ops>>

\* boilerplate::RunExample after the task: the context is destroyed, which
\* collects everything left.
RunExampleDestroyContext ==
    /\ pc = "destroy"
    /\ Collect(FALSE)
    /\ pc' = "shutdown"
    /\ UNCHANGED <<engine, handles, box, rawObj, result, exitCode, ops>>

\* JS_ShutDown(): a PersistentRooted still registered is fatal.
RunExampleShutDown ==
    /\ pc = "shutdown"
    /\ engine' = "shutdown"
    /\ faults' = faults \cup
                 (IF \E p \in PNames : persist[p].reg
                  THEN {"shutdownroot"} ELSE {})
    /\ pc' = "exit"
    /\ UNCHANGED <<heapVars, boxVars, stack, persist, handles, box, rawObj,
                   result, exitCode, ops, gcVars>>

\* main: return 1 when RunExample fails, 0 otherwise.
MainReturn ==
    /\ pc = "exit"
    /\ exitCode' = IF result = "true" THEN 0 ELSE 1
    /\ pc' = "done"
    /\ UNCHANGED <<engine, heapVars, boxVars, stack, persist, handles, box,
                   rawObj, result, ops, gcVars, faults>>

Next ==
    \/ RunExampleInit
    \/ CustomTypeStackSafe
    \/ CustomTypeHeapSafe
    \/ CustomTypePopHeapSafe
    \/ CustomTypePopStackSafe
    \/ ExistingTypeSharedSafe
    \/ ExistingTypePop
    \/ GlobalRootInit
    \/ GlobalRootEmplace
    \/ GlobalRootResetMaybe
    \/ GlobalRootResetPtr
    \/ EmbeddingRootNew
    \/ EmbeddingRootDelete
    \/ CustomObjectCreateGlobal
    \/ CustomObjectCheckGlobal
    \/ CustomObjectNewBox
    \/ CreateNewObject
    \/ CreateCheck
    \/ CreateCallSetSlot
    \/ CreateSetOwned
    \/ CreateSetUnowned
    \/ CreateReturn
    \/ CustomObjectCheckObj
    \/ CustomObjectJSGC
    \/ CustomObjectReturn
    \/ MaybeGC
    \/ RunExampleDestroyContext
    \/ RunExampleShutDown
    \/ MainReturn

Spec == Init /\ [][Next]_vars

\* --------------------------------------------------------------- embedder
\* An embedder using the same types after startup: it fills SafeBoxes with
\* GC things, roots them on the stack or in globalPtrSafe, hands them to
\* CustomObject::create, and collects.
InitEmbed ==
    /\ engine = "running"
    /\ objState = [o \in ObjIds |-> "unalloc"]
    /\ objCls = [o \in ObjIds |-> "none"]
    /\ objGen = [o \in ObjIds |-> 0]
    /\ objSlots = [o \in ObjIds |-> EmptySlots]
    /\ finalized = [o \in ObjIds |-> 0]
    /\ boxState = [b \in BoxIds |-> IF b = eternalBox THEN "alloc" ELSE "free"]
    /\ boxStashed = [b \in BoxIds |-> Undef]
    /\ boxContainer = [b \in BoxIds |-> <<>>]
    /\ stack = <<>>
    /\ persist = GlobalsAtStart
    /\ handles = {}
    /\ pc = "embed"
    /\ box = NoBox
    /\ rawObj = Undef
    /\ result = "none"
    /\ exitCode = -1
    /\ gcCount = 0
    /\ moves = 0
    /\ ops = 0
    /\ marking = NoMarking
    /\ call = NoCall
    /\ faults = {}

\* The process has not aborted or run into undefined behaviour, and the
\* embedder is between JSAPI calls.
Running == pc = "embed" /\ faults = {} /\ ops < MaxOps
Idle == Running /\ handles = {}

\* Boxes some smart pointer or some CustomObject owns.
OwnedBoxes ==
    {stack[i].box : i \in 1..Len(stack)}
    \cup {persist[p].box : p \in PNames}
    \cup {ownedBox(o) : o \in {q \in ObjIds : objState[q] = "live"}}
LooseBoxes == {b \in BoxIds \ {eternalBox} : IsAlloc(b)} \ OwnedBoxes

\* The least n objects not yet allocated, in order.
RECURSIVE FreshObjs(_, _)
FreshObjs(n, from) ==
    IF n = 0 \/ from > MaxObj THEN <<>>
    ELSE IF objState[from] = "unalloc"
         THEN <<from>> \o FreshObjs(n - 1, from + 1)
         ELSE FreshObjs(n, from + 1)

\* Plain objects come to life (JS_NewObject succeeding for each).
NewPlainObjects(os) ==
    /\ objState' = [o \in ObjIds |->
                      IF \E i \in 1..Len(os) : os[i] = o
                      THEN "live" ELSE objState[o]]
    /\ objCls' = [o \in ObjIds |->
                      IF \E i \in 1..Len(os) : os[i] = o
                      THEN "plain" ELSE objCls[o]]
    /\ UNCHANGED <<objGen, objSlots, finalized>>

\* SafeBox* b = new SafeBox(); then b->stashed = v when st, and
\* b->container.push_back(w) n times, every value a new object.
EmbedNewBox ==
    /\ Idle
    /\ ops' = ops + 1
    /\ FreeBoxes # {}
    /\ \E st \in 0..1, n \in 0..MaxLen :
          \E os \in {FreshObjs(st + n, 1)} :
             /\ Len(os) = st + n
             /\ boxState' = [boxState EXCEPT ![FreshBox] = "alloc"]
             /\ boxStashed' = [boxStashed EXCEPT
                   ![FreshBox] = IF st = 1 THEN <<os[1], 0>> ELSE Undef]
             /\ boxContainer' = [boxContainer EXCEPT
                   ![FreshBox] = [i \in 1..n |-> <<os[st + i], 0>>]]
             /\ NewPlainObjects(os)
    /\ UNCHANGED <<engine, stack, persist, handles, progVars, gcVars, faults>>

\* eternalBox.stashed = v, v a new object.
EmbedSetStashed ==
    /\ Idle
    /\ ops' = ops + 1
    /\ HasFreshObj
    /\ boxStashed[eternalBox] = Undef
    /\ boxStashed' = [boxStashed EXCEPT ![eternalBox] = <<FreshObj, 0>>]
    /\ NewPlainObjects(<<FreshObj>>)
    /\ UNCHANGED <<engine, boxState, boxContainer, stack, persist, handles,
                   progVars, gcVars, faults>>

\* JS::Rooted<std::shared_ptr<SafeBox>> r(cx, b), b a SafeBox or empty.
EmbedRoot ==
    /\ Idle
    /\ ops' = ops + 1
    /\ Len(stack) < MaxStack
    /\ \E b \in LooseBoxes \cup {NoBox} :
          PushRooted(Rooted("SharedPtr", b, Undef))
    /\ UNCHANGED <<engine, heapVars, boxVars, persist, handles, progVars,
                   gcVars, faults>>

\* A Rooted is destroyed: the head when scopes nest, another node when the
\* Rooted was stored on the heap.  A smart pointer destroyed with its Rooted
\* deletes its SafeBox.
EmbedDestruct ==
    /\ Idle
    /\ ops' = ops + 1
    /\ \E i \in 1..Len(stack) :
          /\ DestructRooted(i)
          /\ IF i = Len(stack) /\ stack[i].box # NoBox
             THEN DeleteSafeBox(stack[i].box)
             ELSE UNCHANGED boxVars
    /\ UNCHANGED <<engine, heapVars, persist, handles, progVars, gcVars>>

\* JS::Rooted<JSObject*> r(cx, CustomObject::create(cx, b1, b2)); the
\* allocation succeeds and no collection runs inside.
EmbedCreate ==
    /\ Idle
    /\ ops' = ops + 1
    /\ HasFreshObj
    /\ Len(stack) < MaxStack
    /\ \E b1 \in LooseBoxes \cup {NoBox}, b2 \in {eternalBox, NoBox} :
          /\ objState' = [objState EXCEPT ![FreshObj] = "live"]
          /\ objCls' = [objCls EXCEPT ![FreshObj] = "custom"]
          /\ objSlots' = [objSlots EXCEPT
                            ![FreshObj] = [owned |-> b1, unowned |-> b2]]
          /\ PushRooted(Rooted("Object", NoBox, <<FreshObj, 0>>))
    /\ UNCHANGED <<engine, objGen, finalized, boxVars, persist, handles,
                   progVars, gcVars, faults>>

\* globalPtrSafe.init(cx, js::UniquePtr<SafeBox>(b));
EmbedPersistInit ==
    /\ Idle
    /\ ops' = ops + 1
    /\ ~persist[globalPtrSafe].reg
    /\ \E b \in LooseBoxes : Register(globalPtrSafe, "UniquePtr", b)
    /\ UNCHANGED <<engine, heapVars, boxVars, stack, handles, progVars,
                   gcVars, faults>>

\* globalPtrSafe.reset();
EmbedPersistReset ==
    /\ Idle
    /\ ops' = ops + 1
    /\ persist[globalPtrSafe].reg
    /\ DeleteSafeBox(persist[globalPtrSafe].box)
    /\ Unregister(globalPtrSafe)
    /\ UNCHANGED <<engine, heapVars, stack, handles, progVars, gcVars,
                   faults>>

\* A JSAPI call taking the innermost Rooted<JSObject*> as a Handle begins ...
EmbedCall ==
    /\ Idle
    /\ ops' = ops + 1
    /\ Len(stack) > 0
    /\ Top.kind = "Object"
    /\ handles' = {Len(stack)}
    /\ UNCHANGED <<engine, heapVars, boxVars, stack, persist, progVars,
                   gcVars, faults>>

\* ... and returns.
EmbedReturn ==
    /\ Running
    /\ ops' = ops + 1
    /\ handles # {}
    /\ handles' = {}
    /\ UNCHANGED <<engine, heapVars, boxVars, stack, persist, progVars,
                   gcVars, faults>>

\* A collection, between calls or inside one.
EmbedGC ==
    /\ Running
    /\ ops' = ops + 1
    /\ \E moving \in BOOLEAN :
          /\ CanCollect(moving)
          /\ Collect(moving)
    /\ UNCHANGED <<engine, handles, progVars>>

NextEmbed ==
    \/ EmbedNewBox
    \/ EmbedSetStashed
    \/ EmbedRoot
    \/ EmbedDestruct
    \/ EmbedCreate
    \/ EmbedPersistInit
    \/ EmbedPersistReset
    \/ EmbedCall
    \/ EmbedReturn
    \/ EmbedGC

SpecEmbed == InitEmbed /\ [][NextEmbed]_vars

\* ------------------------------------------------- incremental marking
\* A marking pass split into increments that interleave with the mutator.
\* Each increment visits one edge not visited yet in this pass; the pass
\* ends, and sweeps, when nothing is left to visit.  Between increments the embedder assigns to
\* JS::Heap fields of the boxes its roots hold.

\* Boxes a registered root holds: the boxes the embedder can write to.
HeldBoxes ==
    {b \in BoxIds :
        /\ IsAlloc(b)
        /\ \/ \E i \in 1..Len(stack) : stack[i].box = b
           \/ \E p \in PNames : persist[p].reg /\ persist[p].box = b}

\* The JS::Heap fields of those boxes, and the pointers read from them.
HeldSlots ==
    UNION {{Edge("stashed", b, 0, TRUE)}
           \cup {Edge("elem", b, i, TRUE) : i \in 1..Len(boxContainer[b])}
           : b \in HeldBoxes}
HeldValues == {ValueAt(e) : e \in HeldSlots}

\* Edges the pass has still to visit: those of the roots and of the class
\* trace hooks of the objects marked so far.
Frontier ==
    ((RootEdges \cup UNION {ClassTrace(o) : o \in marking.objs})
     \ {FaultEdge}) \ marking.edges

\* The marking pass of the run begins.
IncrStart ==
    /\ pc = "embed" /\ faults = {}
    /\ ~marking.active
    /\ gcCount = 0
    /\ marking' = [NoMarking EXCEPT !.active = TRUE]
    /\ UNCHANGED <<engine, heapVars, boxVars, stack, persist, handles,
                   progVars, gcCount, moves, ops, call, faults>>

\* One increment: an edge is visited and its referent marked.
IncrStep ==
    /\ marking.active
    /\ \E e \in Frontier :
          marking' = [marking EXCEPT
                        !.edges = @ \cup {e},
                        !.objs = @ \cup ({Resolve(ValueAt(e))} \ {0})]
    /\ UNCHANGED <<engine, heapVars, boxVars, stack, persist, handles,
                   progVars, gcCount, moves, ops, call, faults>>

\* A set() without a barrier.
WriteBarrierNone(old, new) == {}

\* The write barrier of JS::Heap<T>::set: while a pass is in progress, a
\* set that changes the referent records the edge transition with the
\* pass, which takes the object overwritten and the object stored as marked.
WriteBarrier(old, new) ==
    IF marking.active /\ old # new
    THEN {Resolve(old), Resolve(new)} \ {0} ELSE {}

\* slot.set(v): the embedder assigns to a JS::Heap field of a box it holds
\* a pointer it read from such a field, or nothing.
HeapSlotSet ==
    /\ Idle
    /\ ops' = ops + 1
    /\ marking.active
    /\ \E e \in HeldSlots, v \in HeldValues \cup {Undef} :
          /\ v # ValueAt(e)
          /\ v # Undef => Resolve(v) # 0
          /\ IF e.k = "stashed"
             THEN /\ boxStashed' = [boxStashed EXCEPT ![e.b] = v]
                  /\ UNCHANGED boxContainer
             ELSE /\ boxContainer' = [boxContainer EXCEPT ![e.b][e.i] = v]
                  /\ UNCHANGED boxStashed
          /\ marking' = [marking EXCEPT
                           !.objs = @ \cup WriteBarrier(ValueAt(e), v),
                           !.late = @ \cup ({e} \cap marking.edges)]
    /\ UNCHANGED <<engine, heapVars, boxState, stack, persist, handles,
                   progVars, gcCount, moves, call, faults>>

\* The pass ends when nothing is left to visit: every object not marked is
\* finalized and collected.  An incremental pass does not relocate.
IncrFinish ==
    /\ marking.active
    /\ Frontier = {}
    /\ \E m \in {[objs |-> marking.objs, edges |-> marking.edges]} :
          \E dead \in {DeadOf(m)} :
             \E freed \in {FreedBy(dead)} : CollectWith(m, dead, freed, FALSE)
    /\ marking' = [NoMarking EXCEPT !.late = marking.late]
    /\ UNCHANGED <<engine, handles, progVars, ops, call>>

\* Before the first pass the embedder builds its boxes and roots.
IncrSetup ==
    /\ ~marking.active /\ gcCount = 0
    /\ (EmbedNewBox \/ EmbedRoot)

NextIncr ==
    \/ IncrSetup
    \/ IncrStart
    \/ IncrStep
    \/ HeapSlotSet
    \/ IncrFinish

SpecIncr == InitEmbed /\ [][NextIncr]_vars

\* ------------------------------------------------- a pass, edge by edge
\* One collection pass as the sequence of visits the tracer makes: the
\* edges of the roots and of the class trace hooks of the objects found, one
\* at a time in any order, an edge once for every root or hook that reports
\* it.  A visit marks the referent; in a relocating pass the first visit
\* that finds an object moves it, and every visit writes the object's new
\* address into the slot visited.

\* The object a slot content refers to during the pass: a slot not visited
\* yet may hold the address an object had before the pass moved it.
PassResolve(a) ==
    IF Resolve(a) # 0 THEN Resolve(a)
    ELSE IF /\ a[1] \in marking.moved
            /\ objState[a[1]] = "live"
            /\ a[2] + 1 = objGen[a[1]]
         THEN a[1] ELSE 0

\* The roots and hooks that report an edge.
TraceSources(e) ==
    {<<"stack", i>> : i \in {j \in 1..Len(stack) :
                               e \in RootTrace("stack", j, stack[j])}}
    \cup {<<"persist", p>> : p \in {q \in PNames :
                               /\ persist[q].reg
                               /\ e \in RootTrace("persist", q, persist[q])}}
    \cup {<<"owned", o>> :
             o \in {q \in marking.objs :
                      /\ objCls[q] = "custom" /\ ownedBox(q) # NoBox
                      /\ e \in ClassTrace(q)
                      /\ e \in SafeBoxTrace(ownedBox(q))}}
    \cup {<<"unowned", o>> :
             o \in {q \in marking.objs :
                      /\ objCls[q] = "custom" /\ unownedBox(q) # NoBox
                      /\ e \in ClassTrace(q)
                      /\ e \in SafeBoxTrace(unownedBox(q))}}

\* Edges visited once that a second root or hook reports too.
Repeated ==
    {e \in marking.edges \ marking.again : Cardinality(TraceSources(e)) >= 2}

\* A tracer that moves the referent at every visit.
MustMoveAlways(o) == marking.moving

\* Whether a visit that finds object o has to move it: only the first one.
MustMove(o) == marking.moving /\ o \notin marking.moved

\* The pass begins.
PassStart ==
    /\ pc = "embed" /\ faults = {}
    /\ ~marking.active
    /\ gcCount = 0
    /\ \E moving \in BOOLEAN :
          marking' = [NoMarking EXCEPT !.active = TRUE, !.moving = moving]
    /\ UNCHANGED <<engine, heapVars, boxVars, stack, persist, handles,
                   progVars, gcCount, moves, ops, call, faults>>

\* visitEdge(slot): one visit.
PassVisit ==
    /\ marking.active
    /\ \E e \in Frontier \cup Repeated :
       \E o \in {PassResolve(ValueAt(e))} :
       \E gen \in {IF o # 0 /\ MustMove(o) THEN objGen[o] + 1
                   ELSE IF o # 0 THEN objGen[o] ELSE 0} :
       \E new \in {IF o # 0 /\ marking.moving THEN <<o, gen>>
                   ELSE ValueAt(e)} :
             /\ marking' = [marking EXCEPT
                   !.edges = @ \cup {e},
                   !.again = @ \cup ({e} \cap marking.edges),
                   !.objs = @ \cup ({o} \ {0}),
                   !.moved = @ \cup (IF marking.moving THEN {o} \ {0} ELSE {})]
             /\ objGen' = [q \in ObjIds |-> IF q = o THEN gen ELSE objGen[q]]
             /\ boxStashed' = [b \in BoxIds |->
                   IF e = Edge("stashed", b, 0, TRUE) THEN new
                   ELSE boxStashed[b]]
             /\ boxContainer' = [b \in BoxIds |->
                   [i \in 1..Len(boxContainer[b]) |->
                      IF e = Edge("elem", b, i, TRUE) THEN new
                      ELSE boxContainer[b][i]]]
             /\ stack' = [i \in 1..Len(stack) |->
                   IF e = Edge("stack", i, 0, TRUE)
                   THEN [stack[i] EXCEPT !.val = new] ELSE stack[i]]
             /\ persist' = [p \in PNames |->
                   IF e = Edge("persist", p, 0, TRUE)
                   THEN [persist[p] EXCEPT !.val = new] ELSE persist[p]]
    /\ UNCHANGED <<engine, objState, objCls, objSlots, finalized, boxState,
                   handles, progVars, gcCount, moves, ops, call, faults>>

\* Every edge reported was visited: the pass sweeps.
PassFinish ==
    /\ marking.active
    /\ Frontier = {} /\ Repeated = {}
    /\ \E m \in {[objs |-> marking.objs, edges |-> marking.edges]} :
          \E dead \in {DeadOf(m)} :
             \E freed \in {FreedBy(dead)} : CollectWith(m, dead, freed, FALSE)
    /\ marking' = [NoMarking EXCEPT !.moving = marking.moving,
                                    !.again = marking.again]
    /\ UNCHANGED <<engine, handles, progVars, ops, call>>

\* JS::Rooted<JSObject*> r(cx, CustomObject::create(cx, b, b)): one box in
\* both slots.
EmbedCreateSame ==
    /\ Idle
    /\ ops' = ops + 1
    /\ HasFreshObj
    /\ Len(stack) < MaxStack
    /\ \E b \in LooseBoxes :
          /\ objState' = [objState EXCEPT ![FreshObj] = "live"]
          /\ objCls' = [objCls EXCEPT ![FreshObj] = "custom"]
          /\ objSlots' = [objSlots EXCEPT
                            ![FreshObj] = [owned |-> b, unowned |-> b]]
          /\ PushRooted(Rooted("Object", NoBox, <<FreshObj, 0>>))
    /\ UNCHANGED <<engine, objGen, finalized, boxVars, persist, handles,
                   progVars, gcVars, faults>>

\* Before the pass the embedder builds its boxes, objects and roots.
PassSetup ==
    /\ ~marking.active /\ gcCount = 0
    /\ (EmbedNewBox \/ EmbedSetStashed \/ EmbedCreate \/ EmbedCreateSame)

NextPass ==
    \/ PassSetup
    \/ PassStart
    \/ PassVisit
    \/ PassFinish

SpecPass == InitEmbed /\ [][NextPass]_vars

\* ------------------------------------------------ direct calls
\* The trace method and the policy functions called directly on a
\* JS::Rooted<std::shared_ptr<SafeBox>> that is empty or holds a SafeBox
\* with any content.
Vals == {Undef} \cup {<<o, 0>> : o \in ObjIds}
Containers == UNION {[1..n -> Vals] : n \in 0..MaxVec}
sharedBox == 2

\* The object CustomObject::create allocates and the box it is given to own.
customObj == 1
newBox == 3

\* The stages of the object in create: no slot set, OwnedBoxSlot set, both
\* set.
CreateStages ==
    {EmptySlots,
     [owned |-> newBox, unowned |-> NoBox],
     [owned |-> newBox, unowned |-> eternalBox]}

InitPolicy ==
    /\ engine = "running"
    /\ objState = [o \in ObjIds |-> "live"]
    /\ objCls = [o \in ObjIds |-> IF o = customObj THEN "custom" ELSE "plain"]
    /\ objGen = [o \in ObjIds |-> 0]
    /\ finalized = [o \in ObjIds |-> 0]
    /\ \E held \in BOOLEAN, v \in Vals, c \in Containers, sl \in CreateStages :
          /\ ~held => (v = Undef /\ c = <<>>)
          /\ objSlots = [o \in ObjIds |->
                           IF o = customObj THEN sl ELSE EmptySlots]
          /\ boxState = [b \in BoxIds |->
                           IF \/ b = eternalBox
                              \/ (held /\ b = sharedBox)
                              \/ (sl.owned = newBox /\ b = newBox)
                           THEN "alloc" ELSE "free"]
          /\ boxStashed = [b \in BoxIds |-> IF b = sharedBox THEN v ELSE Undef]
          /\ boxContainer = [b \in BoxIds |-> IF b = sharedBox THEN c ELSE <<>>]
          /\ stack = <<Rooted("SharedPtr",
                              IF held THEN sharedBox ELSE NoBox, Undef)>>
    /\ persist = GlobalsAtStart
    /\ handles = {}
    /\ pc = "policy"
    /\ box = NoBox
    /\ rawObj = Undef
    /\ result = "none"
    /\ exitCode = -1
    /\ gcCount = 0
    /\ moves = 0
    /\ ops = 0
    /\ marking = NoMarking
    /\ call = NoCall
    /\ faults = {}

policyFrame == <<engine, heapVars, boxVars, stack, persist, handles, progVars,
                 gcCount, moves, ops, marking, faults>>

\* box->trace(trc) on a SafeBox.
CallSafeBoxTrace ==
    /\ pc = "policy"
    /\ \E b \in {q \in BoxIds : IsAlloc(q)} :
          call' = [NoCall EXCEPT !.op = "SafeBox::trace", !.box = b,
                                 !.edges = SafeBoxTrace(b)]
    /\ UNCHANGED policyFrame

\* GCPolicy<std::shared_ptr<SafeBox>>::trace(trc, &sharedSafe, name)
CallPolicyTrace ==
    /\ pc = "policy"
    /\ call' = [NoCall EXCEPT !.op = "trace", !.box = Top.box,
                              !.asked = SharedPtrTrace(Top.box) # {},
                              !.edges = SharedPtrTrace(Top.box)]
    /\ UNCHANGED policyFrame

\* GCPolicy<std::shared_ptr<SafeBox>>::needsSweep(&sharedSafe)
CallPolicyNeedsSweep ==
    /\ pc = "policy"
    /\ \E ans \in BOOLEAN :
          call' = [NoCall EXCEPT
                     !.op = "needsSweep", !.box = Top.box, !.ans = ans,
                     !.res = SharedPtrNeedsSweep(Top.box, ans).res,
                     !.asked = SharedPtrNeedsSweep(Top.box, ans).asked]
    /\ UNCHANGED policyFrame

\* GCPolicy<std::shared_ptr<SafeBox>>::isValid(sharedSafe)
CallPolicyIsValid ==
    /\ pc = "policy"
    /\ \E ans \in BOOLEAN :
          call' = [NoCall EXCEPT
                     !.op = "isValid", !.box = Top.box, !.ans = ans,
                     !.res = SharedPtrIsValid(Top.box, ans).res,
                     !.asked = SharedPtrIsValid(Top.box, ans).asked]
    /\ UNCHANGED policyFrame

\* clasp.cOps->trace(trc, obj): the collector tracing the CustomObject.
CallCustomObjectTrace ==
    /\ pc = "policy"
    /\ objState[customObj] = "live"
    /\ call' = [NoCall EXCEPT !.op = "CustomObject::trace",
                              !.box = ownedBox(customObj),
                              !.edges = ClassTrace(customObj)]
    /\ faults' = faults \cup (IF FaultEdge \in ClassTrace(customObj)
                              THEN {"badderef"} ELSE {})
    /\ UNCHANGED <<engine, heapVars, boxVars, stack, persist, handles,
                   progVars, gcCount, moves, ops, marking>>

\* clasp.cOps->finalize(gcx, obj): the collector finalizing the CustomObject.
CallCustomObjectFinalize ==
    /\ pc = "policy"
    /\ objState[customObj] = "live"
    /\ \E freed \in {ClassFinalize(customObj)} :
          /\ boxState' = [b \in BoxIds |->
                             IF b \in freed THEN "free" ELSE boxState[b]]
          /\ boxStashed' = [b \in BoxIds |->
                             IF b \in freed THEN Undef ELSE boxStashed[b]]
          /\ boxContainer' = [b \in BoxIds |->
                             IF b \in freed THEN <<>> ELSE boxContainer[b]]
          /\ faults' = faults \cup
                (IF \E b \in freed : ~IsAlloc(b) \/ b = eternalBox
                 THEN {"badfree"} ELSE {})
    /\ objState' = [objState EXCEPT ![customObj] = "collected"]
    /\ finalized' = [finalized EXCEPT ![customObj] = @ + 1]
    /\ call' = [NoCall EXCEPT !.op = "CustomObject::finalize",
                              !.box = ownedBox(customObj)]
    /\ UNCHANGED <<engine, objCls, objGen, objSlots, stack, persist, handles,
                   progVars, gcCount, moves, ops, marking>>

NextPolicy ==
    \/ CallSafeBoxTrace
    \/ CallPolicyTrace
    \/ CallPolicyNeedsSweep
    \/ CallPolicyIsValid
    \/ CallCustomObjectTrace
    \/ CallCustomObjectFinalize

SpecPolicy == InitPolicy /\ [][NextPolicy]_vars

\* ------------------------------------------------------------ properties
\* What the properties speak of, stated without the trace methods.

\* The pointers a SafeBox holds in its Heap fields.
SlotValues(b) ==
    {boxStashed[b]} \cup {boxContainer[b][i] : i \in 1..Len(boxContainer[b])}

\* Every Heap field of a box, as the edge a complete trace reports for it.
AllSlotEdges(b) ==
    {Edge("stashed", b, 0, TRUE)}
    \cup {Edge("elem", b, i, TRUE) : i \in 1..Len(boxContainer[b])}

\* Objects a registered root points to.
RootedObjs ==
    ({Resolve(stack[i].val) :
         i \in {j \in 1..Len(stack) : stack[j].kind = "Object"}}
     \cup {Resolve(persist[p].val) :
         p \in {q \in PNames : persist[q].reg /\ persist[q].kind = "Object"}})
    \ {0}

\* Boxes held by a registered root, or by a CustomObject a root points to.
ReachBoxes ==
    {b \in BoxIds :
        /\ IsAlloc(b)
        /\ \/ \E i \in 1..Len(stack) : stack[i].box = b
           \/ \E p \in PNames : persist[p].reg /\ persist[p].box = b
           \/ \E o \in RootedObjs :
                 objCls[o] = "custom" /\ b \in {ownedBox(o), unownedBox(o)}}

\* Objects some trace path from a root reaches.
ReachObjs ==
    RootedObjs
    \cup ({Resolve(a) : a \in UNION {SlotValues(b) : b \in ReachBoxes}} \ {0})

GCStep == gcCount' = gcCount + 1
MovingStep == moves' = moves + 1

\* A box's Heap fields refer, after the step, to the objects they referred
\* to before it, and those objects are alive.
BoxKept(b) ==
    /\ boxState'[b] = "alloc"
    /\ Len(boxContainer'[b]) = Len(boxContainer[b])
    /\ Resolve(boxStashed[b]) # 0 =>
          /\ objState'[Resolve(boxStashed[b])] = "live"
          /\ Resolve(boxStashed[b])' = Resolve(boxStashed[b])
    /\ \A i \in 1..Len(boxContainer[b]) :
          Resolve(boxContainer[b][i]) # 0 =>
             /\ objState'[Resolve(boxContainer[b][i])] = "live"
             /\ Resolve(boxContainer[b][i])' = Resolve(boxContainer[b][i])

\* C1: the stack root list is LIFO.  A construction adds one node at the
\* head and leaves the rest; a destruction removes the head and nothing
\* else, so constructions undone in reverse order leave the list as it was
\* (empty when it started empty); destroying a node that is not the head is
\* reported as a violation and removes nothing.
C1_RootListLIFO ==
    [][/\ Len(stack') > Len(stack) =>
             /\ Len(stack') = Len(stack) + 1
             /\ SubSeq(stack', 1, Len(stack)) = stack
       /\ Len(stack') < Len(stack) =>
             stack' = SubSeq(stack, 1, Len(stack) - 1)
       /\ ("lifo" \in faults' /\ "lifo" \notin faults) => stack' = stack]_vars

\* A non-head destruction was detected with two roots still registered.
C1_Witness == "lifo" \in faults /\ Len(stack) >= 2

\* C2: in a collection pass, an object held only in Heap fields of boxes no
\* trace path reaches is collected, and the Heap fields still hold the
\* pointer; an object held in a Heap field of a box a root reaches is kept.
C2_TracingNotWrapping ==
    [][GCStep =>
         \A o \in ObjIds :
            (objState[o] = "live" /\ objCls[o] = "plain") =>
               /\ o \notin ReachObjs =>
                     /\ objState'[o] = "collected"
                     /\ \A b \in BoxIds :
                           (IsAlloc(b) /\ boxState'[b] = "alloc") =>
                              /\ boxStashed[b] = AddrOf(o) =>
                                    boxStashed'[b] = AddrOf(o)
                              /\ \A i \in 1..Len(boxContainer[b]) :
                                    boxContainer[b][i] = AddrOf(o) =>
                                       boxContainer'[b][i] = AddrOf(o)
               /\ o \in ReachObjs => objState'[o] = "live"]_vars

\* A box still holds the pointer to an object that was collected, beside a
\* rooted box whose objects all survived.
C2_Witness ==
    /\ gcCount >= 1
    /\ \E b \in BoxIds :
          /\ IsAlloc(b) /\ boxStashed[b] # Undef
          /\ objState[boxStashed[b][1]] = "collected"
    /\ \E b \in ReachBoxes :
          /\ Len(boxContainer[b]) >= 1
          /\ \A a \in SlotValues(b) : Resolve(a) # 0

\* C3: a CustomObject's finalize hook has run once when it is collected and
\* not before; its owned box stays allocated while it lives and is released,
\* without a bad delete, when it is collected; eternalBox is never released.
C3_FinalizeReleasesOwnedOnly ==
    /\ \A o \in ObjIds :
          objCls[o] = "custom" =>
             /\ finalized[o] = IF objState[o] = "collected" THEN 1 ELSE 0
             /\ (objState[o] = "live" /\ ownedBox(o) # NoBox) =>
                   IsAlloc(ownedBox(o))
    /\ IsAlloc(eternalBox)
    /\ "badfree" \notin faults
    /\ pc = "coe6" =>
          /\ boxState[box] = "free"
          /\ \A o \in ObjIds : objCls[o] = "custom" => objState[o] = "collected"

\* JS_GC has collected the CustomObject, which held both boxes.
C3_Witness ==
    /\ pc = "coe6"
    /\ \E o \in ObjIds :
          objCls[o] = "custom" /\ objState[o] = "collected" /\ finalized[o] = 1
    /\ box # NoBox /\ boxState[box] = "free"
    /\ IsAlloc(eternalBox)

\* C4: CustomObject::trace reports every Heap field of the owned box and of
\* the unowned box, skipping a box only when its slot holds no pointer; so
\* a collection pass keeps every object a box of a rooted CustomObject
\* refers to.
C4_TraceHookVisitsBothBoxes ==
    /\ [](\A o \in ObjIds :
            (objState[o] = "live" /\ objCls[o] = "custom"
             /\ \A b \in {ownedBox(o), unownedBox(o)} \ {NoBox} : IsAlloc(b))
            => CustomObjectTrace(o) =
                  UNION {AllSlotEdges(b) :
                            b \in {ownedBox(o), unownedBox(o)} \ {NoBox}})
    /\ [][GCStep =>
            \A o \in RootedObjs :
               objCls[o] = "custom" =>
                  \A b \in {ownedBox(o), unownedBox(o)} \ {NoBox} :
                     BoxKept(b)]_vars

\* After a pass, a rooted CustomObject whose owned box and unowned box both
\* refer to live objects.
C4_Witness ==
    /\ gcCount >= 1
    /\ \E o \in RootedObjs :
          /\ objCls[o] = "custom"
          /\ ownedBox(o) # NoBox /\ unownedBox(o) = eternalBox
          /\ Resolve(boxStashed[ownedBox(o)]) # 0
          /\ Resolve(boxStashed[eternalBox]) # 0

\* C5: while globalPtrSafe is registered, every collection pass keeps the
\* objects its SafeBox refers to; once it is reset, a pass collects every
\* object no other root reaches.
C5_PersistentRootKeepsAlive ==
    [][GCStep =>
         IF persist[globalPtrSafe].reg
         THEN BoxKept(persist[globalPtrSafe].box)
         ELSE \A o \in ObjIds :
                 (objState[o] = "live" /\ o \notin ReachObjs) =>
                    objState'[o] = "collected"]_vars

\* globalPtrSafe is registered, two passes have run, one of them moving, and
\* both Heap fields of its box still refer to live objects.
C5_Witness ==
    /\ persist[globalPtrSafe].reg
    /\ gcCount >= 2 /\ moves >= 1
    /\ Resolve(boxStashed[persist[globalPtrSafe].box]) # 0
    /\ Len(boxContainer[persist[globalPtrSafe].box]) >= 1
    /\ Resolve(boxContainer[persist[globalPtrSafe].box][1]) # 0

\* C6: before startup globalPtrSafe and globalMaybeSafe are empty
\* placeholders, not registered and without a box; a global is registered
\* only while the collector is running.
C6_GlobalsEmptyBeforeStartup ==
    /\ engine = "pre" =>
          /\ persist[globalPtrSafe] = EmptyRoot
          /\ persist[globalMaybeSafe] = EmptyRoot
    /\ \A p \in PNames : persist[p].reg => engine = "running"

\* Both globals are initialised, after startup.
C6_Witness ==
    /\ engine = "running"
    /\ persist[globalPtrSafe].reg
    /\ persist[globalMaybeSafe].reg

\* C7: when the context is destroyed and the collector shut down, no
\* PersistentRooted is registered, and shutdown reports no registered root.
C7_GlobalsResetBeforeShutdown ==
    /\ pc \in {"destroy", "shutdown", "exit", "done"} =>
          \A p \in PNames : ~persist[p].reg
    /\ "shutdownroot" \notin faults

\* The collector has shut down after GlobalRootExample ran.
C7_Witness == engine = "shutdown" /\ pc = "done"

\* C8: across a relocating pass, every Rooted<JSObject*>, every Handle and
\* every Heap field of a box a root reaches refers to the object it referred
\* to before, now at another address.
C8_RelocationKeepsIdentity ==
    [][MovingStep =>
         /\ \A i \in 1..Len(stack) :
               (stack[i].kind = "Object" /\ Resolve(stack[i].val) # 0) =>
                  /\ Resolve(stack[i].val)' = Resolve(stack[i].val)
                  /\ stack'[i].val # stack[i].val
         /\ \A h \in handles :
               /\ h \in handles'
               /\ Resolve(stack[h].val)' = Resolve(stack[h].val)
         /\ \A b \in ReachBoxes : BoxKept(b)]_vars

\* A moving pass ran during a call: the handle's object and the element of
\* its owned box's container were moved and still resolve.
C8_Witness ==
    /\ moves >= 1
    /\ \E h \in handles :
          /\ stack[h].val[2] >= 1
          /\ Resolve(stack[h].val) # 0
          /\ ownedBox(Resolve(stack[h].val)) # NoBox
          /\ \E a \in SlotValues(ownedBox(Resolve(stack[h].val))) :
                a[2] >= 1 /\ Resolve(a) # 0

\* C9: the shared_ptr policy's trace on an empty shared_ptr reports no edge,
\* not even the fault edge of a null dereference, and no pass that traced
\* the roots dereferenced a null box.
C9_EmptySharedPtrTracesNothing ==
    /\ \A i \in 1..Len(stack) :
          (stack[i].kind = "SharedPtr" /\ stack[i].box = NoBox) =>
             /\ SharedPtrTrace(stack[i].box) = {}
             /\ RootTrace("stack", i, stack[i]) = {}
    /\ "badderef" \notin faults

\* An empty shared_ptr root lies under a Rooted<JSObject*> whose object a
\* moving pass has moved: that pass traced the empty root.
C9_Witness ==
    /\ Len(stack) >= 2
    /\ stack[1].kind = "SharedPtr" /\ stack[1].box = NoBox
    /\ stack[2].kind = "Object" /\ stack[2].val[2] >= 1
    /\ faults = {}

\* C10: every Handle in flight refers to a Rooted<JSObject*> registered in
\* the stack root list, whose object is alive; from the null check to the
\* return, CustomObject::create holds the new object in its Rooted obj, and
\* no JS_SetReservedSlot writes through a dangling pointer.
C10_HandlesAreRooted ==
    /\ \A h \in handles :
          /\ h \in 1..Len(stack)
          /\ stack[h].kind = "Object"
          /\ Edge("stack", h, 0, TRUE) \in StackEdges
          /\ Resolve(stack[h].val) # 0
    /\ pc \in {"create3", "create3in", "create4", "create4in", "create5"} =>
          /\ Len(stack) >= 2
          /\ Top.kind = "Object"
          /\ Resolve(Top.val) # 0
          /\ objCls[Resolve(Top.val)] = "custom"
    /\ "dangling" \notin faults

\* Inside the second JS_SetReservedSlot call, after a moving pass that ran
\* since the object was allocated.
C10_Witness ==
    /\ pc = "create4in"
    /\ handles = {Len(stack)}
    /\ Top.val[2] >= 1
    /\ Resolve(Top.val) # 0

\* C11: no raw GC-thing pointer is held in a local of a running function
\* when a collection runs: while CustomObjectExample is between the return
\* of CustomObject::create and its own return, its JSObject* obj holds no
\* GC thing at any collection step.
C11_NoRawPointerAcrossGC ==
    [][(GCStep /\ pc \in {"coe4", "coe5", "coe6"}) => rawObj = Undef]_vars

\* C12: while a marking pass is in progress, every assignment to a JS::Heap
\* field that changes its referent hands the object stored (and the one
\* overwritten) to the pass; so when the pass ends, no object is collected
\* that a Heap field of a rooted box refers to, in particular none stored
\* into a field the pass had visited before the assignment.
C12_WriteBarrierKeepsStored ==
    [][/\ (marking.active /\ marking'.active) =>
             \A b \in BoxIds :
                /\ boxStashed'[b] # boxStashed[b] =>
                      ({Resolve(boxStashed[b]), Resolve(boxStashed'[b])} \ {0})
                         \subseteq marking'.objs
                /\ \A i \in 1..Len(boxContainer[b]) :
                      boxContainer'[b][i] # boxContainer[b][i] =>
                         ({Resolve(boxContainer[b][i]),
                           Resolve(boxContainer'[b][i])} \ {0})
                            \subseteq marking'.objs
       /\ (marking.active /\ ~marking'.active) =>
             /\ \A b \in ReachBoxes : BoxKept(b)
             /\ \A e \in marking.late :
                   (e.b \in ReachBoxes /\ Resolve(ValueAt(e)) # 0) =>
                      objState'[Resolve(ValueAt(e))] = "live"]_vars

\* The pass has ended; a field it had visited before the embedder assigned
\* to it holds a live object that no other Heap field refers to.
C12_Witness ==
    /\ gcCount = 1 /\ ~marking.active
    /\ \E e \in marking.late :
          /\ e.b \in ReachBoxes
          /\ Resolve(ValueAt(e)) # 0
          /\ \A b \in BoxIds :
                /\ (b # e.b \/ e.k # "stashed") => boxStashed[b] # ValueAt(e)
                /\ \A i \in 1..Len(boxContainer[b]) :
                      (b # e.b \/ e.k # "elem" \/ i # e.i) =>
                         boxContainer[b][i] # ValueAt(e)
    /\ \E o \in ObjIds : objState[o] = "collected"

\* CustomObject::create was called and JS_NewObject gave it null: the
\* caller's box exists and no object of class clasp was ever allocated.
CreateFailed ==
    /\ box # NoBox
    /\ pc # "create1"
    /\ \A o \in ObjIds : objCls[o] # "custom"

\* C13: when the allocation in CustomObject::create fails, create returns
\* null without writing a reserved slot (it never reaches a
\* JS_SetReservedSlot), CustomObjectExample and with it TracingExample
\* return false without running JS_GC, and main returns 1.
C13_AllocationFailurePropagates ==
    CreateFailed =>
       /\ pc \in {"create2", "coe4", "destroy", "shutdown", "exit", "done"}
       /\ \A o \in ObjIds : objSlots[o] = EmptySlots
       /\ "dangling" \notin faults
       /\ pc = "create2" => (Top.val = Undef /\ result = "none")
       /\ pc = "coe4" => (rawObj = Undef /\ result = "none")
       /\ pc \in {"destroy", "shutdown", "exit", "done"} =>
             (rawObj = Undef /\ result = "false")
       /\ exitCode = IF pc = "done" THEN 1 ELSE -1

\* main has returned 1 after the global was created and the allocation in
\* create failed.
C13_Witness ==
    /\ CreateFailed
    /\ pc = "done" /\ exitCode = 1
    /\ \E o \in ObjIds : objCls[o] = "global"

\* C15: one call of SafeBox::trace reports the stashed field and every
\* element of the container, each by reference and nothing else: as many
\* edges as the container has elements plus one, for a container of any
\* length, the empty one included.
C15_SafeBoxTraceVisitsEverySlot ==
    call.op = "SafeBox::trace" =>
       /\ call.edges = AllSlotEdges(call.box)
       /\ Cardinality(call.edges) = 1 + Len(boxContainer[call.box])
       /\ Edge("stashed", call.box, 0, TRUE) \in call.edges
       /\ \A i \in 1..Len(boxContainer[call.box]) :
             Edge("elem", call.box, i, TRUE) \in call.edges
       /\ \A e \in call.edges :
             /\ e.b = call.box /\ e.ref
             /\ e.k = "stashed" \/ (e.k = "elem" /\ e.i \in 1..MaxVec)

\* SafeBox::trace was called on a box whose container holds as many
\* elements as the bound allows.
C15_Witness ==
    /\ call.op = "SafeBox::trace"
    /\ call.box = sharedBox
    /\ Len(boxContainer[sharedBox]) = MaxVec
    /\ Cardinality(call.edges) = MaxVec + 1

\* C16: the finalize hook runs on an object only in a collection pass and
\* only when no trace path from a root reaches the object; an object a
\* registered Rooted<JSObject*> holds is alive and not finalized, in
\* particular the object CustomObject::create holds in obj from the
\* allocation to its return.
C16_FinalizeOnlyUnreachable ==
    /\ [](\A i \in 1..Len(stack) :
            (stack[i].kind = "Object" /\ stack[i].val # Undef) =>
               /\ objState[stack[i].val[1]] = "live"
               /\ finalized[stack[i].val[1]] = 0)
    /\ []((pc \in {"create2", "create3", "create3in", "create4", "create4in",
                   "create5"} /\ Top.val # Undef) =>
             /\ objCls[Top.val[1]] = "custom"
             /\ finalized[Top.val[1]] = 0)
    /\ [][\A o \in ObjIds :
            finalized'[o] # finalized[o] =>
               /\ GCStep
               /\ o \notin ReachObjs
               /\ objState'[o] = "collected"]_vars

\* A CustomObject that a moving pass moved while create held it rooted has
\* been finalized by the JS_GC after create returned.
C16_Witness ==
    /\ pc = "coe6"
    /\ \E o \in ObjIds :
          /\ objCls[o] = "custom"
          /\ objGen[o] >= 1
          /\ finalized[o] = 1

\* C17: for a shared_ptr holding no SafeBox, isValid returns true and
\* needsSweep returns false, whatever GCPolicy<T> would have answered, and
\* GCPolicy<T> is not called.
C17_EmptyWrapperValidNeverSwept ==
    call.box = NoBox =>
       /\ call.op = "isValid" => (call.res /\ ~call.asked)
       /\ call.op = "needsSweep" => (~call.res /\ ~call.asked)

\* isValid was called on the empty shared_ptr and returned true where the
\* wrapped policy would have said false.
C17_Witness ==
    /\ call.op = "isValid"
    /\ call.box = NoBox
    /\ ~call.ans
    /\ call.res

\* C18: for a shared_ptr holding a SafeBox, trace reports exactly the edges
\* SafeBox::trace reports for that box, and needsSweep and isValid call
\* GCPolicy<T> on the box and return its answer.
C18_WrapperForwardsToTarget ==
    call.box # NoBox =>
       /\ call.op = "trace" =>
             /\ call.edges = SafeBoxTrace(call.box)
             /\ call.edges = AllSlotEdges(call.box)
       /\ call.op \in {"needsSweep", "isValid"} =>
             (call.asked /\ call.res = call.ans)

\* needsSweep was called on a shared_ptr holding a SafeBox and returned the
\* wrapped policy's true.
C18_Witness ==
    /\ call.op = "needsSweep"
    /\ call.box = sharedBox
    /\ call.ans /\ call.res
    /\ Len(boxContainer[sharedBox]) >= 1

\* Every Heap field of every allocated box, and every root slot.
AllSlots ==
    UNION {AllSlotEdges(b) : b \in {q \in BoxIds : IsAlloc(q)}}
    \cup {Edge("stack", i, 0, TRUE) : i \in 1..Len(stack)}

\* C19: visiting edges is idempotent and independent of the order.  Within
\* a pass every visit, a first or a repeated one, in whatever order, leaves
\* each slot referring to the object it referred to and moves an object at
\* most once; when every reported edge has been visited, the objects marked
\* are exactly those a trace path from a root reaches and every visited
\* slot holds the current address of its object; the sweep then finds no
\* dangling slot and keeps exactly the objects marked.
C19_VisitsIdempotentAnyOrder ==
    /\ [][marking.active =>
            /\ \A e \in AllSlots :
                  marking'.active =>
                     PassResolve(ValueAt(e))' = PassResolve(ValueAt(e))
            /\ \A o \in ObjIds :
                  objGen'[o] # objGen[o] =>
                     /\ objGen'[o] = objGen[o] + 1
                     /\ marking.moving
                     /\ o \notin marking.moved]_vars
    /\ []((marking.active /\ Frontier = {} /\ Repeated = {}) =>
             /\ marking.objs = ReachObjs
             /\ \A e \in marking.edges :
                   ValueAt(e) # Undef => Resolve(ValueAt(e)) # 0
             /\ \A o \in marking.objs :
                   objGen[o] = IF marking.moving THEN 1 ELSE 0)
    /\ [][(marking.active /\ ~marking'.active) =>
            \A o \in ObjIds :
               objState[o] = "live" =>
                  (objState'[o] = "live" <=> o \in marking.objs)]_vars
    /\ []("dangling" \notin faults)

\* A relocating pass has ended in which the stashed field of eternalBox,
\* reported by the trace hooks of two CustomObjects, was visited twice; it
\* holds the new address of its object.
C19_Witness ==
    /\ gcCount = 1 /\ ~marking.active /\ marking.moving
    /\ Edge("stashed", eternalBox, 0, TRUE) \in marking.again
    /\ Resolve(boxStashed[eternalBox]) # 0
    /\ boxStashed[eternalBox][2] = 1
    /\ Cardinality({o \in RootedObjs : unownedBox(o) = eternalBox}) = 2

\* The PersistentRooted on the collector's root list.
Registered == {p \in PNames : persist[p].reg}

\* The PersistentRooted members of EmbeddingContext.
Members == {memberSafe, memberObjPtr}

\* C20: the member PersistentRooted of EmbeddingContext register when the
\* structure is constructed with cx and unregister when it is destroyed.
\* Construction adds exactly the two members to the root list, neither of
\* them on it before; both stay on it, and every other root stays as it was,
\* for as long as the EmbeddingContext lives; destruction takes exactly the
\* two off, so the root list after EmbeddingRootExample is the one before
\* it, and outside the lifetime neither member is registered.
C20_MemberRootsFollowContext ==
    /\ [][(pc = "ere1" /\ pc' = "ere2") =>
             /\ Registered \cap Members = {}
             /\ Registered' = Registered \cup Members
             /\ \A p \in PNames \ Members : persist'[p] = persist[p]]_vars
    /\ [](pc = "ere2" => Members \subseteq Registered)
    /\ [][(pc = "ere2" /\ pc' = "ere2") =>
             \A p \in PNames \ Members : persist'[p] = persist[p]]_vars
    /\ [][(pc = "ere2" /\ pc' # "ere2") =>
             /\ pc' = "coe1"
             /\ Registered' = Registered \ Members
             /\ \A p \in PNames \ Members : persist'[p] = persist[p]]_vars
    /\ [](pc # "ere2" => Registered \cap Members = {})
    /\ [](pc \in {"ere1", "coe1"} => Registered = {})

\* EmbeddingRootExample has returned: the EmbeddingContext was constructed
\* and destroyed, its SafeBox is gone and neither member is registered.
C20_Witness ==
    /\ pc = "coe1"
    /\ engine = "running"
    /\ Registered = {}
    /\ \A p \in Members : persist[p] = EmptyRoot
    /\ LooseBoxes = {}

\* C21: the SafeBox that CustomObjectExample allocates is released exactly
\* once on every path: no box is deleted twice or by two finalize hooks, and
\* once the function has returned, with true or with false, the box it
\* allocated is no longer allocated.
C21_OwnedBoxReleasedOnce ==
    /\ "badfree" \notin faults
    /\ (box # NoBox /\ pc \in {"destroy", "shutdown", "exit", "done"}) =>
          ~IsAlloc(box)

\* The boxes the reserved slots of the CustomObject hold.
SlotBoxes == {ownedBox(customObj), unownedBox(customObj)} \ {NoBox}

\* C22: the trace and finalize hooks of CustomObject are safe on an object
\* whose reserved slots are not yet populated.  Called at any stage of
\* create, trace dereferences no null box and reports the fields of the
\* boxes that are set and nothing for an empty slot, so no edge at all
\* before the first JS_SetReservedSlot; finalize deletes the owned box when
\* it is set and nothing when the slot is empty, and never the unowned box.
C22_HooksSafeOnEmptySlots ==
    /\ [][(objState[customObj] = "live"
           /\ call'.op = "CustomObject::trace") =>
             /\ faults' = faults
             /\ call'.edges = UNION {AllSlotEdges(b) : b \in SlotBoxes}
             /\ SlotBoxes = {} => call'.edges = {}
             /\ unownedBox(customObj) = NoBox =>
                   \A e \in call'.edges : e.b = ownedBox(customObj)
             /\ UNCHANGED <<heapVars, boxVars>>]_vars
    /\ [][(objState[customObj] = "live"
           /\ call'.op = "CustomObject::finalize") =>
             /\ faults' = faults
             /\ ownedBox(customObj) = NoBox => UNCHANGED boxVars
             /\ \A b \in BoxIds :
                   boxState'[b] = IF b = ownedBox(customObj)
                                  THEN "free" ELSE boxState[b]]_vars
    /\ [](faults = {})

\* trace was called on the CustomObject before the first JS_SetReservedSlot:
\* both slots empty, no edge reported, no fault.
C22_Witness ==
    /\ call.op = "CustomObject::trace"
    /\ objState[customObj] = "live"
    /\ objSlots[customObj] = EmptySlots
    /\ call.edges = {}
    /\ faults = {}

\* The program points of main in the order the source runs them:
\* TracingExample calls CustomTypeExample, ExistingTypeExample,
\* GlobalRootExample, EmbeddingRootExample, CustomObjectExample.
PcOrder ==
    <<"main", "cte1", "cte2", "cte3", "cte4", "ete1", "ete2",
      "gre1", "gre2", "gre3", "gre4", "ere1", "ere2",
      "coe1", "coe2", "coe3",
      "create1", "create2", "create3", "create3in", "create4", "create4in",
      "create5", "coe4", "coe5", "coe6",
      "destroy", "shutdown", "exit", "done">>
Rank(l) == CHOOSE i \in 1..Len(PcOrder) : PcOrder[i] = l

\* Program points between two example functions, where no Rooted of an
\* example exists; and the points inside CustomObjectExample just before
\* and just after its call of CustomObject::create.
BetweenExamples == {"main", "cte1", "ete1", "gre1", "ere1", "coe1", "destroy"}
AroundCreate == {"create1", "coe4"}

\* C23: every example function leaves the list of stack roots as it found
\* it on every return path, the early failure returns included.  Between
\* two examples, and after the last one whatever it returned, the list is
\* empty as it was before the first; CustomObject::create finds the list
\* holding global alone and leaves it so, whether it returns an object or
\* null.  Every step that shortens the list removes its head and nothing
\* else, so the Rooted are destroyed in the reverse of the order they were
\* constructed in.  The examples run in the order TracingExample names them,
\* and once one has returned false no example runs.
C23_ExamplesRestoreRootList ==
    /\ [](pc \in BetweenExamples => stack = <<>>)
    /\ [](pc \in AroundCreate =>
             /\ Len(stack) = 1
             /\ stack[1].kind = "Object"
             /\ Resolve(stack[1].val) # 0
             /\ objCls[Resolve(stack[1].val)] = "global")
    /\ [][Len(stack') < Len(stack) =>
             stack' = SubSeq(stack, 1, Len(stack) - 1)]_vars
    /\ [][Len(stack') > Len(stack) =>
             /\ Len(stack') = Len(stack) + 1
             /\ SubSeq(stack', 1, Len(stack)) = stack]_vars
    /\ []("lifo" \notin faults)
    /\ [](\E i \in 1..Len(PcOrder) : PcOrder[i] = pc)
    /\ [][Rank(pc') >= Rank(pc)]_vars
    /\ [][(result = "none" /\ result' = "false") => pc' = "destroy"]_vars
    /\ [](result = "false" =>
             pc \in {"destroy", "shutdown", "exit", "done"})

\* CustomObjectExample has returned false after CustomObject::create
\* returned null: the Rooted obj of create and then global were destroyed
\* and the list of stack roots is empty again.
C23_Witness ==
    /\ pc = "destroy"
    /\ result = "false"
    /\ box # NoBox
    /\ rawObj = Undef
    /\ \E o \in ObjIds : objCls[o] = "global"
    /\ stack = <<>>
    /\ "lifo" \notin faults

====
